---- MODULE Spec2Model ----
(***************************************************************************)
(* A model of the BayesFlow slice made of                                  *)
(*   - bayesflow/utils/tensor_utils.py: expand, expand_as, expand_to       *)
(*   - bayesflow/adapters/transforms/as_set.py: AsSet.forward / inverse    *)
(*   - bayesflow/approximators/model_comparison_approximator.py:           *)
(*     ModelComparisonApproximator                                         *)
(*                                                                         *)
(* The state is one ModelComparisonApproximator (its networks and the      *)
(* metrics compile attached to them) together with the record of the last  *)
(* call made: which operation, with which arguments, what it returned or   *)
(* raised, and the calls it made to its collaborators, in order.           *)
(***************************************************************************)
EXTENDS Integers, Sequences, FiniteSets, TLC

VARIABLES
    summary_network,     \* self.summary_network: "None" or the network's name
    classifier_metrics,  \* self.classifier_network._metrics: metric names, in order
    summary_metrics,     \* self.summary_network._metrics: metric names, in order
    op,                  \* the operation called last
    args,                \* its arguments
    out,                 \* what it returned or raised
    effects              \* the calls it made to collaborators, in order

vars == <<summary_network, classifier_metrics, summary_metrics, op, args, out, effects>>

(***************************************************************************)
(* Bounds of the model.                                                    *)
(***************************************************************************)
\* the largest extent of an array axis
MaxDim == 2
\* the largest number of axes of an input array
MaxAxes == 4
\* the largest number of axes expand is asked to add (and, negated, the least)
MaxN == 2
\* scalar tensors (losses, metric values) range over 0..MaxScalar
MaxScalar == 1
\* num_models, the width of the logits
NumModels == 2
\* the largest batch of logits
MaxBatch == 1

(***************************************************************************)
(* Python values.                                                          *)
(***************************************************************************)
\* None, where the value is otherwise a name
None == "None"
\* None, where the value is otherwise a sequence (a list of names, a tensor)
NoneSeq == <<"None">>

Max(a, b) == IF a > b THEN a ELSE b

\* dict | dict: the right operand's entries win
DictMerge(a, b) ==
    [k \in (DOMAIN a) \cup (DOMAIN b) |-> IF k \in DOMAIN b THEN b[k] ELSE a[k]]

\* the sequences over S of length at most n
SeqsUpTo(S, n) == UNION {[1..k -> S] : k \in 0..n}

(***************************************************************************)
(* Arrays: a shape and the element at each index. An element is named by   *)
(* its row-major position in the array it was created in, so that an       *)
(* operation that moved or dropped an element is seen to have done so.     *)
(***************************************************************************)
Indices(shape) ==
    {i \in [1..Len(shape) -> 1..Max(MaxDim, 1)] : \A k \in 1..Len(shape) : i[k] <= shape[k]}

RECURSIVE Flat(_, _)
Flat(shape, i) ==
    IF Len(shape) = 0 THEN 0
    ELSE Flat(SubSeq(shape, 1, Len(shape) - 1), SubSeq(i, 1, Len(i) - 1)) * shape[Len(shape)]
         + (i[Len(i)] - 1)

NewArray(shape) == [shape |-> shape, at |-> [i \in Indices(shape) |-> Flat(shape, i)]]

Shapes == SeqsUpTo(1..MaxDim, MaxAxes)

Arrays == {NewArray(s) : s \in Shapes}

ndim(x) == Len(x.shape)

\* a result: what a call returned, or the exception it raised
Returned(v) == [status |-> "ok", value |-> v]
Raised(e, v) == [status |-> e, value |-> v]

NoArray == [shape |-> <<>>, at |-> <<>>]

(***************************************************************************)
(* tensor_utils.py: expand, expand_as, expand_to.                          *)
(***************************************************************************)
\* a value given as `side`: its Python type and its text
Str(s) == [type |-> "str", v |-> s]
Sides == {Str("left"), Str("right"), Str("both"), Str(""),
          [type |-> "NoneType", v |-> "None"], [type |-> "int", v |-> "0"]}

\* [None] * n
Nones(n) == [k \in 1..n |-> "None"]

\* x[tuple(idx)] for an index made of None (a new axis) and one Ellipsis (x's axes)
GetItem(x, idx) ==
    LET p == CHOOSE k \in 1..Len(idx) : idx[k] = "Ellipsis"
        shape == [k \in 1..(Len(idx) - 1 + ndim(x)) |->
                    IF k >= p /\ k < p + ndim(x) THEN x.shape[k - p + 1] ELSE 1]
    IN  [shape |-> shape,
         at |-> [i \in Indices(shape) |-> x.at[SubSeq(i, p, p + ndim(x) - 1)]]]

expand_right_idx(n) == <<"Ellipsis">> \o Nones(n)

expand_left_idx(n) == Nones(n) \o <<"Ellipsis">>

\* expand with the two sides taken for each other
expand_sides_swapped(x, n, side) ==
    IF n < 0 THEN Raised("ValueError", NoArray)
    ELSE CASE side = Str("left") -> Returned(GetItem(x, expand_right_idx(n)))
           [] side = Str("right") -> Returned(GetItem(x, expand_left_idx(n)))
           [] side.type = "str" /\ side.v \notin {"left", "right"} -> Raised("ValueError", NoArray)
           [] OTHER -> Raised("TypeError", NoArray)

expand(x, n, side) ==
    IF n < 0 THEN Raised("ValueError", NoArray)
    ELSE CASE side = Str("left") -> Returned(GetItem(x, expand_left_idx(n)))
           [] side = Str("right") -> Returned(GetItem(x, expand_right_idx(n)))
           [] side.type = "str" /\ side.v \notin {"left", "right"} -> Raised("ValueError", NoArray)
           [] OTHER -> Raised("TypeError", NoArray)

expand_to(x, dim, side) == expand(x, dim - ndim(x), side)

expand_as(x, y, side) == expand_to(x, ndim(y), side)

(***************************************************************************)
(* as_set.py: AsSet.                                                       *)
(***************************************************************************)
\* np.atleast_3d
atleast_3d(ary) ==
    CASE ndim(ary) = 0 ->
           [shape |-> <<1, 1, 1>>,
            at |-> [i \in Indices(<<1, 1, 1>>) |-> ary.at[<<>>]]]
      [] ndim(ary) = 1 ->
           LET shape == <<1, ary.shape[1], 1>>
           IN  [shape |-> shape, at |-> [i \in Indices(shape) |-> ary.at[<<i[2]>>]]]
      [] ndim(ary) = 2 ->
           LET shape == <<ary.shape[1], ary.shape[2], 1>>
           IN  [shape |-> shape, at |-> [i \in Indices(shape) |-> ary.at[<<i[1], i[2]>>]]]
      [] OTHER -> ary

\* np.squeeze(data, axis=2), the third axis being of size 1
squeeze2(data) ==
    LET shape == SubSeq(data.shape, 1, 2) \o SubSeq(data.shape, 4, ndim(data))
    IN  [shape |-> shape,
         at |-> [i \in Indices(shape) |->
                   data.at[SubSeq(i, 1, 2) \o <<1>> \o SubSeq(i, 3, Len(i))]]]

AsSet_forward(data) == Returned(atleast_3d(data))

\* AsSet.inverse without its squeeze
AsSet_inverse_no_squeeze(data) ==
    IF ndim(data) < 3 THEN Raised("IndexError", NoArray)
    ELSE Returned(data)

AsSet_inverse(data) ==
    IF ndim(data) < 3 THEN Raised("IndexError", NoArray)   \* data.shape[2]
    ELSE IF data.shape[3] = 1 THEN Returned(squeeze2(data))
    ELSE Returned(data)

(***************************************************************************)
(* The array transforms as operations. An inverse is applied either to a   *)
(* fresh array or to the result of the forward call before it, which is    *)
(* how an adapter's inverse pass gets its input.                           *)
(***************************************************************************)
\* no call is under way: the last one has returned to its caller
Idle ==
    /\ op = "idle"
    /\ args = <<>>
    /\ out = <<>>
    /\ effects = <<>>

\* the call returns (or its exception propagates) to the caller
Return ==
    /\ op # "idle"
    /\ op' = "idle"
    /\ args' = <<>>
    /\ out' = <<>>
    /\ effects' = <<>>
    /\ UNCHANGED <<summary_network, classifier_metrics, summary_metrics>>

ApproximatorIdle ==
    /\ summary_network = None
    /\ classifier_metrics = <<>>
    /\ summary_metrics = <<>>

InitArrays ==
    /\ ApproximatorIdle
    /\ Idle

ApproximatorUnchanged == UNCHANGED <<summary_network, classifier_metrics, summary_metrics>>

\* the arrays whose number of axes a call of expand_as is given to match
Likes == {NewArray(s) : s \in SeqsUpTo({1}, MaxAxes)}

CallExpand ==
    /\ op = "idle"
    /\ \E x \in Arrays, n \in (0 - MaxN)..MaxN, side \in Sides :
        /\ op' = "expand"
        /\ args' = [x |-> x, n |-> n, side |-> side]
        /\ out' = expand(x, n, side)
        /\ effects' = <<>>
        /\ ApproximatorUnchanged

CallExpandTo ==
    /\ op = "idle"
    /\ \E x \in Arrays, dim \in 0..(MaxAxes + MaxN), side \in Sides :
        /\ op' = "expand_to"
        /\ args' = [x |-> x, dim |-> dim, side |-> side]
        /\ out' = expand_to(x, dim, side)
        /\ effects' = <<>>
        /\ ApproximatorUnchanged

CallExpandAs ==
    /\ op = "idle"
    /\ \E x \in Arrays, y \in Likes, side \in Sides :
        /\ op' = "expand_as"
        /\ args' = [x |-> x, y |-> y, side |-> side]
        /\ out' = expand_as(x, y, side)
        /\ effects' = <<>>
        /\ ApproximatorUnchanged

CallForward ==
    /\ op = "idle"
    /\ \E x \in Arrays :
        /\ op' = "AsSet.forward"
        /\ args' = [x |-> x]
        /\ out' = AsSet_forward(x)
        /\ effects' = <<>>
        /\ ApproximatorUnchanged

CallInverse ==
    /\ op = "idle"
    /\ \E x \in Arrays :
        /\ op' = "AsSet.inverse"
        /\ args' = [x |-> x, chained |-> FALSE, orig |-> x]
        /\ out' = AsSet_inverse(x)
        /\ effects' = <<>>
        /\ ApproximatorUnchanged

\* inverse(forward(x)): the inverse pass applied to what the forward pass returned
CallInverseOfForward ==
    /\ op = "AsSet.forward"
    /\ out.status = "ok"
    /\ op' = "AsSet.inverse"
    /\ args' = [x |-> out.value, chained |-> TRUE, orig |-> args.x]
    /\ out' = AsSet_inverse(out.value)
    /\ effects' = <<>>
    /\ ApproximatorUnchanged

NextArrays ==
    \/ CallExpand
    \/ CallExpandTo
    \/ CallExpandAs
    \/ CallForward
    \/ CallInverse
    \/ CallInverseOfForward
    \/ Return

SpecArrays == InitArrays /\ [][NextArrays]_vars

(***************************************************************************)
(* Claims about the array transforms, checked under SpecArrays.            *)
(***************************************************************************)
\* inverse(forward(x)) was computed from an x of at most 3 axes that is not the
\* squeeze rule's degenerate case (3 axes, the last of size 1)
RoundTripCase(lo) ==
    /\ op = "AsSet.inverse"
    /\ args.chained
    /\ ndim(args.orig) >= lo
    /\ ndim(args.orig) <= 3
    /\ ~(ndim(args.orig) = 3 /\ args.orig.shape[3] = 1)

\* C6 as stated: for every array x with at most 3 axes, AsSet.inverse(AsSet.forward(x))
\* equals x (same shape, same elements), unless x has 3 axes and its last axis has
\* size exactly 1.
C6_RoundTripAtMost3Axes ==
    RoundTripCase(0) => (out.status = "ok" /\ out.value = args.orig)

\* C6 as amended: for every array x with 2 or 3 axes, AsSet.inverse(AsSet.forward(x))
\* equals x (same shape, same elements), unless x has 3 axes and its last axis has
\* size exactly 1. For x with 0 or 1 axes the round trip returns 2 axes, not x.
C6_RoundTrip2Or3Axes ==
    /\ RoundTripCase(2) => (out.status = "ok" /\ out.value = args.orig)
    /\ (RoundTripCase(0) /\ ndim(args.orig) < 2) =>
           (out.status = "ok" /\ ndim(out.value) = 2 /\ out.value # args.orig)

C6_Witness ==
    /\ RoundTripCase(2)
    /\ ndim(args.orig) = 2
    /\ args.orig.shape[1] > 1
    /\ args.orig.shape[2] > 1
    /\ ndim(args.x) = 3
    /\ out.value = args.orig

\* C7: AsSet.forward only appends singleton axes: an input of fewer than 3 axes
\* comes back with exactly 3 axes, the input's shape a prefix of the result's and
\* every added axis of size 1; an input of 3 or more axes keeps its shape.
C7_ForwardAppendsTrailingAxes ==
    op = "AsSet.forward" =>
        /\ out.status = "ok"
        /\ IF ndim(args.x) < 3
           THEN /\ ndim(out.value) = 3
                /\ SubSeq(out.value.shape, 1, ndim(args.x)) = args.x.shape
                /\ \A k \in (ndim(args.x) + 1)..3 : out.value.shape[k] = 1
           ELSE out.value.shape = args.x.shape

\* what expand(x, n, side) is to do, r being what it did
ExpandContract(x, n, side, r) ==
    LET valid == n >= 0 /\ side \in {Str("left"), Str("right")}
        ones == [k \in 1..n |-> 1]
    IN  /\ (r.status = "ok") <=> valid
        /\ valid => /\ ndim(r.value) = ndim(x) + n
                    /\ r.value.shape = IF side = Str("left") THEN ones \o x.shape
                                       ELSE x.shape \o ones
        /\ n < 0 => r.status = "ValueError"
        /\ (n >= 0 /\ side.type = "str" /\ ~valid) => r.status = "ValueError"
        /\ (n >= 0 /\ side.type # "str") => r.status = "TypeError"

\* C8: expand(x, n, side) returns exactly when n >= 0 and side is "left" or "right",
\* and then returns ndim(x) + n axes, the n new ones of size 1 on the given side and
\* x's extents in order; n < 0 raises ValueError whatever side is, another string
\* side raises ValueError and a side that is no string raises TypeError. expand_to
\* and expand_as are expand with n = dim - ndim(x), resp. n = ndim(y) - ndim(x).
C8_ExpandContract ==
    /\ op = "expand" => ExpandContract(args.x, args.n, args.side, out)
    /\ op = "expand_to" => ExpandContract(args.x, args.dim - ndim(args.x), args.side, out)
    /\ op = "expand_as" =>
           ExpandContract(args.x, ndim(args.y) - ndim(args.x), args.side, out)

C8_Witness ==
    /\ op = "expand_to"
    /\ args.side = Str("left")
    /\ ndim(args.x) = 2
    /\ args.x.shape[1] # args.x.shape[2]
    /\ args.dim = ndim(args.x) + MaxN
    /\ out.status = "ok"
    /\ ndim(out.value) = args.dim

(***************************************************************************)
(* model_comparison_approximator.py: ModelComparisonApproximator.          *)
(*                                                                         *)
(* A tensor is known by the parts it was concatenated from and, when it is *)
(* a scalar, by its value; what a network or a metric returns is the       *)
(* caller's to choose (ext below), these being collaborators.              *)
(***************************************************************************)
Scalars == 0..MaxScalar

Scalar(n) == [parts |-> <<"scalar">>, v |-> n]

Tensor(name) == [parts |-> <<name>>, v |-> 0]

NoneTensor == Tensor("None")

\* keras.ops.concatenate([a, b], axis=-1)
concatenate(a, b) == [parts |-> a.parts \o b.parts, v |-> 0]

\* keras.ops.zeros(())
zeros == Scalar(0)

\* the approximator's own collaborators
classifier_network == "classifier_network"
adapter_object == "adapter"

EmptyDict == <<>>

\* dict.get(key, default)
Get(d, key, default) == IF key \in DOMAIN d THEN d[key] ELSE default

\* the dict left by dict.pop(key)
Popped(d, key) == [k \in (DOMAIN d) \ {key} |-> d[k]]

\* {name: value for ...} over names[i], values[i]: a later entry replaces an earlier
FromPairs(names, values) ==
    [k \in {names[i] : i \in 1..Len(names)} |->
        values[CHOOSE i \in 1..Len(names) :
                  names[i] = k /\ \A j \in (i + 1)..Len(names) : names[j] # k]]

\* {f"{key}/<tag>_{key}": value for key, value in d.items()}
Namespaced(d, tag) ==
    [nk \in {k \o "/" \o tag \o "_" \o k : k \in DOMAIN d} |->
        d[CHOOSE k \in DOMAIN d : k \o "/" \o tag \o "_" \o k = nk]]

\* keras.ops.argmax(logits, axis=-1), per row, counted from 0
ArgMaxRow(row) ==
    (CHOOSE i \in 1..Len(row) :
        /\ \A j \in 1..Len(row) : row[j] <= row[i]
        /\ \A j \in 1..(i - 1) : row[j] < row[i]) - 1

argmax(logits) == [r \in 1..Len(logits) |-> ArgMaxRow(logits[r])]

\* the names of the metrics a caller may attach to a network
MetricNames == {"accuracy", "loss"}
MetricLists == SeqsUpTo(MetricNames, Cardinality(MetricNames))
SummaryMetricLists == SeqsUpTo({"mmd"}, Cardinality({"mmd"}))

Stages == {"training", "validation"}

\* logits: a batch of rows of NumModels values
LogitValues == {0, 1}
Logits == UNION {[1..b -> [1..NumModels -> LogitValues]] : b \in 1..MaxBatch}

\* what summary_network.compute_metrics may return: a loss, the outputs, metrics
SummaryMetricsDicts ==
    {DictMerge([loss |-> Scalar(l), outputs |-> Tensor("summary_outputs")], extra) :
        l \in Scalars, extra \in {EmptyDict, [accuracy |-> Scalar(MaxScalar)]}}

\* what calling the classifier network and the projector on x may do: return
\* logits or, x being None, raise whatever the layer raises on None
ClassifierOutcomes(x) ==
    {[status |-> "ok", logits |-> l] : l \in Logits}
    \cup (IF x = NoneTensor
          THEN {[status |-> e, logits |-> <<>>] : e \in {"TypeError", "ValueError", "AttributeError"}}
          ELSE {})

\* the calls an operation makes, as it makes them
SummaryCall(x, stage) ==
    [f |-> "summary_network.compute_metrics", x |-> x, stage |-> stage]
ClassifierCall(x) == [f |-> "classifier_network", x |-> x]
MetricCall(name, y_true, y_pred) ==
    [f |-> "metric", name |-> name, y_true |-> y_true, y_pred |-> y_pred]

\* the sample-based metrics computed at every stage
evaluates_metrics_at_any_stage(stage, metrics) == Len(metrics) > 0

\* line 138: whether the sample-based metrics are computed
evaluates_metrics(stage, metrics) == stage # "training" /\ Len(metrics) > 0

\* lines 118-127: the summary metrics and the classifier's input
summary_step(sn, classifier_conditions, ext) ==
    IF sn = None
    THEN [summary_metrics |-> EmptyDict, classifier_conditions |-> classifier_conditions]
    ELSE LET summary_outputs == ext.sm["outputs"]
         IN  [summary_metrics |-> Popped(ext.sm, "outputs"),
              classifier_conditions |->
                  IF classifier_conditions = NoneTensor THEN summary_outputs
                  ELSE concatenate(classifier_conditions, summary_outputs)]

\* compute_metrics of an approximator with summary network sn and classifier
\* metrics `metrics`; ext is what the collaborators return: sm the summary
\* network's metrics, clf the classifier's outcome, ce the cross-entropy, mv the
\* metrics' values
compute_metrics(sn, metrics, classifier_conditions, model_indices, summary_variables, stage, ext) ==
    LET s == summary_step(sn, classifier_conditions, ext)
        calls == (IF sn = None THEN <<>> ELSE <<SummaryCall(summary_variables, stage)>>)
                 \o <<ClassifierCall(s.classifier_conditions)>>
    IN  IF ext.clf.status # "ok"
        THEN [out |-> Raised(ext.clf.status, EmptyDict), effects |-> calls]
        ELSE
        LET logits == ext.clf.logits
            cross_entropy == Scalar(ext.ce)
            evaluated == evaluates_metrics(stage, metrics)
            predictions == argmax(logits)
            classifier_metrics_ ==
                IF evaluated
                THEN DictMerge([loss |-> cross_entropy],
                               FromPairs(metrics, [i \in 1..Len(metrics) |-> Scalar(ext.mv[i])]))
                ELSE [loss |-> cross_entropy]
            metric_calls ==
                IF evaluated
                THEN [i \in 1..Len(metrics) |-> MetricCall(metrics[i], model_indices, predictions)]
                ELSE <<>>
            loss == Scalar(Get(classifier_metrics_, "loss", zeros).v
                           + Get(s.summary_metrics, "loss", zeros).v)
        IN  [out |-> Returned(DictMerge(DictMerge([loss |-> loss],
                                                  Namespaced(classifier_metrics_, "classifier")),
                                        Namespaced(s.summary_metrics, "summary"))),
             effects |-> calls \o metric_calls]

(***************************************************************************)
(* build_adapter, build_dataset, fit.                                      *)
(***************************************************************************)
\* the lists of variable names a caller may give, None among them
NameLists == {NoneSeq, <<"x">>, <<"x", "y">>}
ModelIndexNames == {"model_indices", "m"}

\* a transform appended to the adapter by the builder call of its name
Builder(name, keys, into) == [f |-> name, keys |-> keys, into |-> into]

\* build_adapter refusing its arguments as soon as one of the two is missing
lacks_either_condition(classifier_conditions, summary_variables) ==
    classifier_conditions = NoneSeq \/ summary_variables = NoneSeq

\* line 53: whether build_adapter refuses its arguments
lacks_conditions(classifier_conditions, summary_variables) ==
    classifier_conditions = NoneSeq /\ summary_variables = NoneSeq

\* build_adapter: the adapter is the sequence of the transforms it is made of
build_adapter(classifier_conditions, summary_variables, model_index_name) ==
    IF lacks_conditions(classifier_conditions, summary_variables)
    THEN [out |-> Raised("ValueError", <<>>), effects |-> <<>>]
    ELSE
    LET a0 == <<Builder("Adapter", <<>>, ""), Builder("to_array", <<>>, ""),
                Builder("convert_dtype", <<"float64">>, "float32")>>
        a1 == IF classifier_conditions # NoneSeq
              THEN a0 \o <<Builder("concatenate", classifier_conditions, "classifier_conditions")>>
              ELSE a0
        a2 == IF summary_variables # NoneSeq
              THEN a1 \o <<Builder("as_set", summary_variables, ""),
                           Builder("concatenate", summary_variables, "summary_variables")>>
              ELSE a1
        a3 == a2 \o <<Builder("rename", <<model_index_name>>, "model_indices"),
                      Builder("keep", <<"classifier_conditions", "summary_variables",
                                        "model_indices">>, ""),
                      Builder("standardize", <<"model_indices">>, "")>>
    IN  [out |-> Returned(a3), effects |-> a3]

\* what a caller may give as dataset, simulator, simulators and adapter
Datasets == {None, "dataset"}
Simulators == {None, "simulator"}
SimulatorLists == {NoneSeq, <<"s1">>, <<"s1", "s2">>}
Adapters == {<<"auto">>, <<"user_adapter">>}

\* sum(arg is not None for arg in (dataset, simulator, simulators))
given(dataset, simulator, simulators) ==
    (IF dataset # None THEN 1 ELSE 0) + (IF simulator # None THEN 1 ELSE 0)
    + (IF simulators # NoneSeq THEN 1 ELSE 0)

NewComparisonSimulator(simulators) == [f |-> "ModelComparisonSimulator", simulators |-> simulators]
SuperBuildDataset(dataset, simulator) ==
    [f |-> "super.build_dataset", dataset |-> dataset, simulator |-> simulator]
SuperFit(dataset, simulator, adapter) ==
    [f |-> "super.fit", dataset |-> dataset, simulator |-> simulator, adapter |-> adapter]
Log(level, text) == [f |-> "logging", level |-> level, text |-> text]

build_dataset(dataset, simulator, simulators) ==
    IF given(dataset, simulator, simulators) # 1
    THEN [out |-> Raised("ValueError", ""), effects |-> <<>>]
    ELSE IF simulators # NoneSeq
    THEN [out |-> Returned("super.build_dataset()"),
          effects |-> <<NewComparisonSimulator(simulators),
                        SuperBuildDataset(dataset, "comparison_simulator")>>]
    ELSE [out |-> Returned("super.build_dataset()"),
          effects |-> <<SuperBuildDataset(dataset, simulator)>>]

\* fit with a dataset, the dataset silently preferred to the simulators
fit_dataset_preferred(dataset, simulator, simulators) ==
    [out |-> Returned("super.fit()"), effects |-> <<SuperFit(dataset, None, <<>>)>>]

\* lines 163-169: fit with a dataset
fit_dataset(dataset, simulator, simulators) ==
    IF simulator # None \/ simulators # NoneSeq
    THEN [out |-> Raised("ValueError", ""), effects |-> <<>>]
    ELSE [out |-> Returned("super.fit()"), effects |-> <<SuperFit(dataset, None, <<>>)>>]

\* fit; kw are the keyword arguments filter_kwargs hands to build_adapter
fit(adapter, dataset, simulator, simulators, kw) ==
    IF dataset # None THEN fit_dataset(dataset, simulator, simulators)
    ELSE
    LET auto == adapter = <<"auto">>
        built == build_adapter(kw.classifier_conditions, kw.summary_variables,
                               kw.model_index_name)
        e1 == IF auto
              THEN <<Log("info", "Building automatic data adapter.")>> \o built.effects
              ELSE <<>>
        adapter1 == IF auto THEN built.out.value ELSE adapter
    IN  IF auto /\ built.out.status # "ok"
        THEN [out |-> Raised(built.out.status, ""), effects |-> e1]
        ELSE IF simulator # None
        THEN [out |-> Returned("super.fit()"),
              effects |-> e1 \o <<SuperFit(None, simulator, adapter1)>>]
        ELSE IF simulators = NoneSeq
        THEN [out |-> Raised("TypeError", ""), effects |-> e1]   \* len(None)
        ELSE [out |-> Returned("super.fit()"),
              effects |-> e1 \o <<Log("info", "Building model comparison simulator."),
                                  NewComparisonSimulator(simulators),
                                  SuperFit(None, "comparison_simulator", adapter1)>>]

(***************************************************************************)
(* compile, get_config, from_config.                                       *)
(***************************************************************************)
\* `if metrics:` is false of None and of an empty sequence
Truthy(metrics) == metrics # NoneSeq /\ metrics # <<>>

\* keras.saving.serialize_keras_object / deserialize_keras_object: None stays None
Objects == {None, adapter_object, classifier_network, "summary_network"}
serialize(obj) == IF obj = None THEN None ELSE "config of " \o obj
deserialize(config) ==
    IF config = None THEN None ELSE CHOOSE obj \in Objects : serialize(obj) = config

\* what super().get_config() may return
BaseConfigs ==
    {[name |-> "model_comparison_approximator"],
     [name |-> "model_comparison_approximator", trainable |-> "True"],
     [name |-> "model_comparison_approximator", num_models |-> "2"]}

get_config(sn, base_config) ==
    DictMerge(base_config,
              [adapter |-> serialize(adapter_object),
               classifier_network |-> serialize(classifier_network),
               summary_network |-> serialize(sn)])

\* cls(<explicit keywords>, **config): Python refuses a keyword given twice, and
\* __init__ has num_models, classifier_network and adapter without a default
construct(explicit, config) ==
    IF (DOMAIN explicit) \cap (DOMAIN config) # {} THEN Raised("TypeError", EmptyDict)
    ELSE LET kwargs == DictMerge(explicit, config)
         IN  IF ~({"num_models", "classifier_network", "adapter"} \subseteq DOMAIN kwargs)
             THEN Raised("TypeError", EmptyDict)
             ELSE Returned([k \in {"num_models", "classifier_network", "adapter",
                                   "summary_network"} |-> Get(kwargs, k, None)])

from_config(config) ==
    construct([adapter |-> deserialize(config["adapter"]),
               classifier_network |-> deserialize(config["classifier_network"]),
               summary_network |-> deserialize(config["summary_network"])],
              config)

(***************************************************************************)
(* The approximator's operations. The approximator is constructed with or  *)
(* without a summary network; compile attaches metrics to its networks.    *)
(***************************************************************************)
Init ==
    /\ summary_network \in {None, "summary_network"}
    /\ classifier_metrics = <<>>
    /\ summary_metrics = <<>>
    /\ Idle

\* compile(classifier_metrics=cm, summary_metrics=sm)
CallCompile ==
    /\ op = "idle"
    /\ \E cm \in MetricLists \cup {NoneSeq}, sm \in SummaryMetricLists \cup {NoneSeq} :
        /\ op' = "compile"
        /\ args' = [classifier_metrics |-> cm, summary_metrics |-> sm]
        /\ classifier_metrics' = IF Truthy(cm) THEN cm ELSE classifier_metrics
        /\ summary_metrics' = IF Truthy(sm) /\ summary_network # None THEN sm
                              ELSE summary_metrics
        /\ effects' = (IF Truthy(sm) /\ summary_network = None
                       THEN <<Log("warning", "Ignoring summary metrics because there is no summary network.")>>
                       ELSE <<>>)
                      \o <<[f |-> "super.compile"]>>
        /\ out' = Returned("super.compile()")
        /\ UNCHANGED summary_network

CallComputeMetrics ==
    /\ op = "idle"
    /\ \E cc \in {NoneTensor, Tensor("classifier_conditions")},
          sv \in IF summary_network = None THEN {NoneTensor, Tensor("summary_variables")}
                 ELSE {Tensor("summary_variables")},
          stage \in Stages,
          sm \in IF summary_network = None THEN {EmptyDict} ELSE SummaryMetricsDicts,
          ce \in Scalars :
        \E clf \in ClassifierOutcomes(summary_step(summary_network, cc, [sm |-> sm]).classifier_conditions),
           mv \in [1..(IF evaluates_metrics(stage, classifier_metrics)
                       THEN Len(classifier_metrics) ELSE 0) -> Scalars] :
            LET ext == [sm |-> sm, clf |-> clf, ce |-> ce, mv |-> mv]
                r == compute_metrics(summary_network, classifier_metrics, cc,
                                     Tensor("model_indices"), sv, stage, ext)
            IN  /\ op' = "compute_metrics"
                /\ args' = [classifier_conditions |-> cc, summary_variables |-> sv,
                            model_indices |-> Tensor("model_indices"),
                            stage |-> stage, ext |-> ext]
                /\ out' = r.out
                /\ effects' = r.effects
                /\ ApproximatorUnchanged

CallBuildAdapter ==
    /\ op = "idle"
    /\ \E cc \in NameLists, sv \in NameLists, name \in ModelIndexNames :
        LET r == build_adapter(cc, sv, name)
        IN  /\ op' = "build_adapter"
            /\ args' = [classifier_conditions |-> cc, summary_variables |-> sv,
                        model_index_name |-> name]
            /\ out' = r.out
            /\ effects' = r.effects
            /\ ApproximatorUnchanged

CallBuildDataset ==
    /\ op = "idle"
    /\ \E dataset \in Datasets, simulator \in Simulators, simulators \in SimulatorLists :
        LET r == build_dataset(dataset, simulator, simulators)
        IN  /\ op' = "build_dataset"
            /\ args' = [dataset |-> dataset, simulator |-> simulator,
                        simulators |-> simulators]
            /\ out' = r.out
            /\ effects' = r.effects
            /\ ApproximatorUnchanged

CallFit ==
    /\ op = "idle"
    /\ \E adapter \in Adapters, dataset \in Datasets, simulator \in Simulators,
          simulators \in SimulatorLists, cc \in NameLists, sv \in NameLists :
        LET kw == [classifier_conditions |-> cc, summary_variables |-> sv,
                   model_index_name |-> "model_indices"]
            r == fit(adapter, dataset, simulator, simulators, kw)
        IN  /\ op' = "fit"
            /\ args' = [adapter |-> adapter, dataset |-> dataset, simulator |-> simulator,
                        simulators |-> simulators, kw |-> kw]
            /\ out' = r.out
            /\ effects' = r.effects
            /\ ApproximatorUnchanged

CallGetConfig ==
    /\ op = "idle"
    /\ \E base_config \in BaseConfigs :
        /\ op' = "get_config"
        /\ args' = [base_config |-> base_config]
        /\ out' = Returned(get_config(summary_network, base_config))
        /\ effects' = <<>>
        /\ ApproximatorUnchanged

\* from_config(a.get_config())
CallFromConfig ==
    /\ op = "get_config"
    /\ op' = "from_config"
    /\ args' = [config |-> out.value]
    /\ out' = from_config(out.value)
    /\ effects' = <<>>
    /\ ApproximatorUnchanged

Next ==
    \/ CallCompile
    \/ CallComputeMetrics
    \/ CallBuildAdapter
    \/ CallBuildDataset
    \/ CallFit
    \/ CallGetConfig
    \/ CallFromConfig
    \/ Return

Spec == Init /\ [][Next]_vars

(***************************************************************************)
(* Claims about the approximator, checked under Spec.                      *)
(***************************************************************************)
MetricsReturned == op = "compute_metrics" /\ out.status = "ok"

\* the keys of the classifier's and of the summary network's metrics in a call
\* of compute_metrics that returned
ClassifierMetricKeys ==
    {"loss"} \cup (IF args.stage # "training"
                   THEN {classifier_metrics[i] : i \in 1..Len(classifier_metrics)}
                   ELSE {})
SummaryMetricKeys ==
    IF summary_network = None THEN {} ELSE (DOMAIN args.ext.sm) \ {"outputs"}
ClassifierKey(k) == k \o "/classifier_" \o k
SummaryKey(k) == k \o "/summary_" \o k

\* C1: the metrics compute_metrics returns hold "loss", the cross-entropy of the
\* logits against model_indices plus the summary network's loss (the cross-entropy
\* alone without a summary network); every classifier metric k is under
\* "k/classifier_k", every summary metric k but "outputs" under "k/summary_k",
\* and nothing else is there, no two entries sharing a key.
C1_TotalLossAndNamespacing ==
    MetricsReturned =>
        /\ "loss" \in DOMAIN out.value
        /\ out.value["loss"] =
               Scalar(args.ext.ce
                      + (IF summary_network = None THEN 0 ELSE args.ext.sm["loss"].v))
        /\ DOMAIN out.value =
               {"loss"} \cup {ClassifierKey(k) : k \in ClassifierMetricKeys}
                        \cup {SummaryKey(k) : k \in SummaryMetricKeys}
        /\ Cardinality(DOMAIN out.value) =
               1 + Cardinality(ClassifierMetricKeys) + Cardinality(SummaryMetricKeys)

\* C2: compute_metrics given no classifier_conditions by an approximator without a
\* summary network raises an invalid-argument error, and the classifier network is
\* not called.
C2_AbsentClassifierInputRejected ==
    (/\ op = "compute_metrics"
     /\ args.classifier_conditions = NoneTensor
     /\ summary_network = None) =>
        /\ out.status = "ValueError"
        /\ \A i \in DOMAIN effects : effects[i].f # "classifier_network"

\* C3: fit given a dataset and a simulator or simulators raises ValueError and calls
\* nothing (no base fit, no adapter built, no comparison simulator made); given a
\* dataset alone it makes one call, the base fit with that dataset, no adapter built.
C3_FitWithDataset ==
    (op = "fit" /\ args.dataset # None) =>
        IF args.simulator # None \/ args.simulators # NoneSeq
        THEN out.status = "ValueError" /\ effects = <<>>
        ELSE /\ out.status = "ok"
             /\ effects = <<SuperFit(args.dataset, None, <<>>)>>

C3_Witness ==
    /\ op = "fit"
    /\ args.dataset # None
    /\ args.simulator = None
    /\ args.simulators # NoneSeq
    /\ args.adapter = <<"auto">>
    /\ out.status = "ValueError"

\* C4: a call of fit that returns has made exactly one call of the base fit and was
\* given exactly one of dataset, simulator and simulators; a call given none or
\* more than one of them is rejected, not answered by preferring one source. (Any
\* exception is taken for the rejection here: a call given none of the three ends
\* in the TypeError of len(None), or in build_adapter's ValueError.)
C4_ExactlyOneDataSource ==
    op = "fit" =>
        LET k == given(args.dataset, args.simulator, args.simulators)
        IN  /\ out.status = "ok" =>
                /\ Cardinality({i \in DOMAIN effects : effects[i].f = "super.fit"}) = 1
                /\ k = 1
            /\ k # 1 => out.status # "ok"

\* C5: build_adapter raises ValueError exactly when classifier_conditions and
\* summary_variables are both None, nothing having been constructed; otherwise it
\* returns an adapter, whatever model_index_name is.
C5_BuildAdapterPrecondition ==
    op = "build_adapter" =>
        IF args.classifier_conditions = NoneSeq /\ args.summary_variables = NoneSeq
        THEN out.status = "ValueError" /\ effects = <<>>
        ELSE /\ out.status = "ok"
             /\ Len(out.value) > 0
             /\ out.value[1].f = "Adapter"

C5_Witness ==
    /\ op = "build_adapter"
    /\ args.classifier_conditions = NoneSeq
    /\ args.summary_variables = NoneSeq
    /\ args.model_index_name # "model_indices"
    /\ out.status = "ValueError"

\* C9: from_config(a.get_config()) returns an approximator constructed with the
\* adapter, classifier network and summary network deserialized from the
\* configuration, the summary network possibly None.
C9_ConfigRoundTrip ==
    op = "from_config" =>
        /\ out.status = "ok"
        /\ out.value["adapter"] = deserialize(args.config["adapter"])
        /\ out.value["classifier_network"] = deserialize(args.config["classifier_network"])
        /\ out.value["summary_network"] = deserialize(args.config["summary_network"])

IsMetricCall(e) == e.f = "metric"

\* C10: in a call of compute_metrics that returns, the classifier's metrics are
\* evaluated, each once, on model_indices and the argmax of the logits, and are in
\* the result under "m/classifier_m", exactly when stage is not "training" and the
\* classifier has metrics, the value under a name being that of the last metric of
\* the name; otherwise none is evaluated and the only classifier key of the result
\* is "loss/classifier_loss", the cross-entropy.
C10_MetricsStageGated ==
    MetricsReturned =>
        LET gated == args.stage # "training" /\ Len(classifier_metrics) > 0
            names == {classifier_metrics[i] : i \in 1..Len(classifier_metrics)}
            calls == SelectSeq(effects, IsMetricCall)
            logits == args.ext.clf.logits
            found == (DOMAIN out.value) \cap {ClassifierKey(k) : k \in MetricNames \cup {"loss"}}
        IN  IF gated
            THEN /\ found = {ClassifierKey(k) : k \in names \cup {"loss"}}
                 /\ Len(calls) = Len(classifier_metrics)
                 /\ \A i \in 1..Len(calls) :
                        /\ calls[i].name = classifier_metrics[i]
                        /\ calls[i].y_true = args.model_indices
                        /\ Len(calls[i].y_pred) = Len(logits)
                        /\ \A r \in 1..Len(logits), j \in 1..NumModels :
                               logits[r][j] <= logits[r][calls[i].y_pred[r] + 1]
                 /\ \A i \in 1..Len(classifier_metrics) :
                        (\A j \in (i + 1)..Len(classifier_metrics) :
                             classifier_metrics[j] # classifier_metrics[i])
                        => out.value[ClassifierKey(classifier_metrics[i])] = Scalar(args.ext.mv[i])
            ELSE /\ found = {ClassifierKey("loss")}
                 /\ calls = <<>>
                 /\ out.value[ClassifierKey("loss")] = Scalar(args.ext.ce)

C10_Witness ==
    /\ MetricsReturned
    /\ args.stage = "validation"
    /\ classifier_metrics = <<"accuracy">>
    /\ summary_network # None
    /\ ClassifierKey("accuracy") \in DOMAIN out.value
    /\ Len(SelectSeq(effects, IsMetricCall)) = 1

====
